---- MODULE Spec2Model ----
(***************************************************************************)
(* The autoscaler control loop of src/autoscaler/autoscaler.py: the        *)
(* cooldown ledger and metric history of MetricsCollector, the three       *)
(* decision algorithms, the orchestrator adapter (get_service_replicas,    *)
(* scale_service) and the per-service pipelines run by                     *)
(* run_monitoring_cycle.  Time is in whole seconds.                        *)
(***************************************************************************)
EXTENDS Integers, Sequences, FiniteSets, TLC

\* ---------------------------------------------------------------- config.py
SCALE_UP_THRESHOLD == 80
SCALE_DOWN_THRESHOLD == 30
MIN_REPLICAS == 2
MAX_REPLICAS == 10
CHECK_INTERVAL == 30
COOLDOWN_PERIOD == 120
POSTGRES_MAX_REPLICAS == 3
REDIS_SCALE_UP_MEMORY == 80
REDIS_MAX_REPLICAS == 2
CPU_SCALE_UP_THRESHOLD == 70
CPU_SCALE_DOWN_THRESHOLD == 20
MEMORY_SCALE_UP_THRESHOLD == 80
MEMORY_SCALE_DOWN_THRESHOLD == 40
RESPONSE_TIME_SCALE_UP_THRESHOLD == 1000
RESPONSE_TIME_SCALE_DOWN_THRESHOLD == 200
PREDICTION_SAMPLES == 10

\* the connection-utilization literal of scale_postgres_instances
POSTGRES_SCALE_UP_UTILIZATION == 80
\* the "critical load" literal of _exponential_scaling_decision
CRITICAL_USAGE == 90
\* datetime.timedelta normalises to (days, seconds, microseconds) with
\* 0 <= seconds < 86400; .seconds is that component
SecondsPerDay == 86400

\* ------------------------------------------------------------------ bounds
\* ticks of the control loop that are explored
MaxTicks == 2
\* largest replica count handed to the decision engine
MaxCurrent == 12
\* longest history handed to get_trend
MaxTrendLen == 6
\* samples appended to one history ring
MaxAppends == 12
\* ticks the scheduler loop of run() starts
MaxLoopTicks == 2

\* ------------------------------------------------------------ environment
API == "api"
POSTGRES == "postgres"
REDIS == "redis"
Services == {API, POSTGRES, REDIS}

Algorithms == {"linear", "exponential", "predictive", "unknown"}

\* container statistics and measured response time of a tick whose health
\* request answers 200
ApiSamples ==
    { [cpu |-> 10, mem |-> 10, rt |-> 100],
      [cpu |-> 85, mem |-> 50, rt |-> 1500] }

\* replica counts the orchestrator may hold when the controller starts,
\* inside and outside the configured bounds
StartReplicas ==
    { [api |-> 2, postgres |-> 1, redis |-> 1],
      [api |-> 5, postgres |-> 1, redis |-> 1],
      [api |-> 12, postgres |-> 3, redis |-> 2],
      [api |-> 17, postgres |-> 1, redis |-> 1] }

\* replica counts another party may set between the controller's read and
\* its actuation call
OtherPartyReplicas ==
    [ api |-> {3}, postgres |-> {2}, redis |-> {2} ]

\* seconds that may pass between the starts of two ticks
TickDelays == {CHECK_INTERVAL, COOLDOWN_PERIOD, SecondsPerDay}

VARIABLES
    docker_available,     \* AutoScaler.docker_available
    algorithm,            \* AutoscalerConfig.SCALING_ALGORITHM
    running,              \* AutoScaler.running
    now,                  \* datetime.now(), seconds
    replicas,             \* the orchestrator's replica count per service
    metrics_history,      \* MetricsCollector.metrics_history
    last_scaling_action,  \* MetricsCollector.last_scaling_action
    scaling_decisions,    \* scaling_decisions_counter{service,direction}
    pc,                   \* position of the control loop inside a tick
    tick,                 \* ticks started so far
    last_update,          \* when service.update last succeeded, per service
    obs,                  \* what the pipeline that ran last did
    call,                 \* a function of the controller applied on its own
    loop                  \* AutoScaler.run: start-up, scheduler, shutdown

vars == << docker_available, algorithm, running, now, replicas, metrics_history,
           last_scaling_action, scaling_decisions, pc, tick, last_update, obs,
           call, loop >>

\* ------------------------------------------------------- MetricsCollector
HistoryKeys == {"api_cpu_usage", "api_memory_usage", "api_response_time"}

RECURSIVE SumSeq(_)
SumSeq(s) == IF s = << >> THEN 0 ELSE Head(s) + SumSeq(Tail(s))

\* list(...)[-n:]
LastN(s, n) == IF Len(s) <= n THEN s ELSE SubSeq(s, Len(s) - n + 1, Len(s))

\* a full ring that discards the new sample instead of its oldest
add_metric_keeps_oldest(history, key, value) ==
    LET appended == Append(history[key], value)
    IN  [history EXCEPT ![key] =
            IF Len(appended) > PREDICTION_SAMPLES THEN history[key] ELSE appended]

\* deque(maxlen=PREDICTION_SAMPLES).append
add_metric(history, key, value) ==
    LET appended == Append(history[key], value)
    IN  [history EXCEPT ![key] =
            IF Len(appended) > PREDICTION_SAMPLES THEN Tail(appended) ELSE appended]

\* get_trend averaging everything before the last three samples of the ring
get_trend_whole_history(history, key) ==
    IF Len(history[key]) < 3 THEN "stable"
    ELSE LET values == history[key]
             recent_sum == SumSeq(LastN(values, 3))
             older == IF Len(values) > 3
                        THEN SubSeq(values, 1, Len(values) - 3)
                        ELSE << values[1] >>
             older_sum == SumSeq(older)
             k == Len(older)
         IN  IF 10 * k * recent_sum > 33 * older_sum THEN "increasing"
             ELSE IF 10 * k * recent_sum < 27 * older_sum THEN "decreasing"
             ELSE "stable"

\* recent_avg = mean(values[-3:]), older_avg = mean(values[:-3]) or values[0];
\* recent_avg > older_avg * 1.1 is compared over the integers:
\* recent_sum / 3 > (older_sum / k) * 11 / 10
get_trend(history, key) ==
    IF Len(history[key]) < 3 THEN "stable"
    ELSE LET values == LastN(history[key], 5)
             recent_sum == SumSeq(LastN(values, 3))
             older == IF Len(values) > 3
                        THEN SubSeq(values, 1, Len(values) - 3)
                        ELSE << values[1] >>
             older_sum == SumSeq(older)
             k == Len(older)
         IN  IF 10 * k * recent_sum > 33 * older_sum THEN "increasing"
             ELSE IF 10 * k * recent_sum < 27 * older_sum THEN "decreasing"
             ELSE "stable"

\* timedelta.seconds: the seconds component of the normalised difference
TimedeltaSeconds(delta) == delta % SecondsPerDay

\* can_scale comparing against the wrong period
can_scale_check_interval(ledger, service, t) ==
    IF service \notin DOMAIN ledger THEN TRUE
    ELSE TimedeltaSeconds(t - ledger[service]) >= CHECK_INTERVAL

can_scale(ledger, service, t) ==
    IF service \notin DOMAIN ledger THEN TRUE
    ELSE TimedeltaSeconds(t - ledger[service]) >= COOLDOWN_PERIOD

record_scaling_action(ledger, service, t) ==
    [x \in (DOMAIN ledger) \cup {service} |-> IF x = service THEN t ELSE ledger[x]]

\* ------------------------------------------------------- decision engine
Min2(a, b) == IF a < b THEN a ELSE b
Max2(a, b) == IF a > b THEN a ELSE b

\* the linear decision comparing with >= and <=
linear_scaling_decision_inclusive(metrics, current_replicas) ==
    LET scale_up == \/ metrics.cpu >= CPU_SCALE_UP_THRESHOLD
                    \/ metrics.mem >= MEMORY_SCALE_UP_THRESHOLD
                    \/ metrics.rt >= RESPONSE_TIME_SCALE_UP_THRESHOLD
        scale_down == /\ metrics.cpu <= CPU_SCALE_DOWN_THRESHOLD
                      /\ metrics.mem <= MEMORY_SCALE_DOWN_THRESHOLD
                      /\ metrics.rt <= RESPONSE_TIME_SCALE_DOWN_THRESHOLD
    IN  IF scale_up /\ current_replicas < MAX_REPLICAS THEN current_replicas + 1
        ELSE IF scale_down /\ current_replicas > MIN_REPLICAS THEN current_replicas - 1
        ELSE current_replicas

linear_scaling_decision(metrics, current_replicas) ==
    LET scale_up == \/ metrics.cpu > CPU_SCALE_UP_THRESHOLD
                    \/ metrics.mem > MEMORY_SCALE_UP_THRESHOLD
                    \/ metrics.rt > RESPONSE_TIME_SCALE_UP_THRESHOLD
        scale_down == /\ metrics.cpu < CPU_SCALE_DOWN_THRESHOLD
                      /\ metrics.mem < MEMORY_SCALE_DOWN_THRESHOLD
                      /\ metrics.rt < RESPONSE_TIME_SCALE_DOWN_THRESHOLD
    IN  IF scale_up /\ current_replicas < MAX_REPLICAS THEN current_replicas + 1
        ELSE IF scale_down /\ current_replicas > MIN_REPLICAS THEN current_replicas - 1
        ELSE current_replicas

\* the exponential decision rounding current_replicas * scale_factor up
exponential_scaling_decision_rounds_up(metrics, current_replicas) ==
    LET max_usage == Max2(metrics.cpu, metrics.mem)
        clamp(n) == Max2(MIN_REPLICAS, Min2(MAX_REPLICAS, n))
    IN  IF max_usage > CRITICAL_USAGE THEN clamp(current_replicas * 2)
        ELSE IF max_usage > SCALE_UP_THRESHOLD THEN clamp((current_replicas * 3 + 1) \div 2)
        ELSE IF max_usage < SCALE_DOWN_THRESHOLD THEN clamp((current_replicas * 7 + 9) \div 10)
        ELSE current_replicas

\* _exponential_scaling_decision under the bounds min_replicas and
\* max_replicas (AutoscalerConfig reads both from the environment);
\* int(current_replicas * scale_factor) for the factors 2, 1.5 and 0.7
exponential_scaling_decision_within(min_replicas, max_replicas, metrics, current_replicas) ==
    LET max_usage == Max2(metrics.cpu, metrics.mem)
        clamp(n) == Max2(min_replicas, Min2(max_replicas, n))
    IN  IF max_usage > CRITICAL_USAGE THEN clamp(current_replicas * 2)
        ELSE IF max_usage > SCALE_UP_THRESHOLD THEN clamp((current_replicas * 3) \div 2)
        ELSE IF max_usage < SCALE_DOWN_THRESHOLD THEN clamp((current_replicas * 7) \div 10)
        ELSE current_replicas

\* the decision under the default bounds
exponential_scaling_decision(metrics, current_replicas) ==
    exponential_scaling_decision_within(MIN_REPLICAS, MAX_REPLICAS, metrics, current_replicas)

\* the predictive decision scaling up only when both trends are increasing
predictive_scaling_decision_both_rising(metrics, current_replicas, history) ==
    LET cpu_trend == get_trend(history, "api_cpu_usage")
        memory_trend == get_trend(history, "api_memory_usage")
    IN  IF /\ (cpu_trend = "increasing" /\ memory_trend = "increasing")
           /\ (metrics.cpu > 60 \/ metrics.mem > 60)
        THEN Min2(current_replicas + 1, MAX_REPLICAS)
        ELSE IF /\ (cpu_trend = "decreasing" /\ memory_trend = "decreasing")
                /\ (metrics.cpu < 40 /\ metrics.mem < 40)
        THEN Max2(current_replicas - 1, MIN_REPLICAS)
        ELSE current_replicas

\* the predictive decision with the two clamps exchanged: max on the way up,
\* min on the way down
predictive_scaling_decision_swapped_clamp(metrics, current_replicas, history) ==
    LET cpu_trend == get_trend(history, "api_cpu_usage")
        memory_trend == get_trend(history, "api_memory_usage")
    IN  IF /\ (cpu_trend = "increasing" \/ memory_trend = "increasing")
           /\ (metrics.cpu > 60 \/ metrics.mem > 60)
        THEN Max2(current_replicas + 1, MAX_REPLICAS)
        ELSE IF /\ (cpu_trend = "decreasing" /\ memory_trend = "decreasing")
                /\ (metrics.cpu < 40 /\ metrics.mem < 40)
        THEN Min2(current_replicas - 1, MIN_REPLICAS)
        ELSE current_replicas

predictive_scaling_decision(metrics, current_replicas, history) ==
    LET cpu_trend == get_trend(history, "api_cpu_usage")
        memory_trend == get_trend(history, "api_memory_usage")
    IN  IF /\ (cpu_trend = "increasing" \/ memory_trend = "increasing")
           /\ (metrics.cpu > 60 \/ metrics.mem > 60)
        THEN Min2(current_replicas + 1, MAX_REPLICAS)
        ELSE IF /\ (cpu_trend = "decreasing" /\ memory_trend = "decreasing")
                /\ (metrics.cpu < 40 /\ metrics.mem < 40)
        THEN Max2(current_replicas - 1, MIN_REPLICAS)
        ELSE current_replicas

\* a dispatcher that leaves the count alone when it does not know the name
make_scaling_decision_unknown_keeps(alg, metrics, current_replicas, history) ==
    IF alg = "linear" THEN linear_scaling_decision(metrics, current_replicas)
    ELSE IF alg = "exponential" THEN exponential_scaling_decision(metrics, current_replicas)
    ELSE IF alg = "predictive"
        THEN predictive_scaling_decision(metrics, current_replicas, history)
    ELSE current_replicas

make_scaling_decision(alg, metrics, current_replicas, history) ==
    IF alg = "linear" THEN linear_scaling_decision(metrics, current_replicas)
    ELSE IF alg = "exponential" THEN exponential_scaling_decision(metrics, current_replicas)
    ELSE IF alg = "predictive"
        THEN predictive_scaling_decision(metrics, current_replicas, history)
    ELSE linear_scaling_decision(metrics, current_replicas)

\* -------------------------------------------------- orchestrator adapter
\* get_service_replicas without the monitoring-only branch
get_service_replicas_unguarded(available, reps, service, read_ok) ==
    IF read_ok THEN reps[service] ELSE 0

\* read_ok: docker_client.services.get and the attrs lookup did not raise
get_service_replicas(available, reps, service, read_ok) ==
    IF ~available THEN 1
    ELSE IF read_ok THEN reps[service]
    ELSE 0

\* scale_service reporting success from its except clause
scale_service_swallows_error(available, actual, target_replicas, get_ok, update_ok) ==
    IF ~available
    THEN [ret |-> FALSE, replicas |-> actual, direction |-> "none", kind |-> "simulated"]
    ELSE IF ~get_ok
    THEN [ret |-> TRUE, replicas |-> actual, direction |-> "none", kind |-> "get_failed"]
    ELSE IF actual = target_replicas
    THEN [ret |-> TRUE, replicas |-> actual, direction |-> "none", kind |-> "same"]
    ELSE IF ~update_ok
    THEN [ret |-> TRUE, replicas |-> actual, direction |-> "none", kind |-> "update_failed"]
    ELSE [ret |-> TRUE, replicas |-> target_replicas,
          direction |-> IF target_replicas > actual THEN "up" ELSE "down",
          kind |-> "updated"]

\* scale_service reporting success in monitoring-only mode
scale_service_simulated_success(available, actual, target_replicas, get_ok, update_ok) ==
    IF ~available
    THEN [ret |-> TRUE, replicas |-> actual, direction |-> "none", kind |-> "simulated"]
    ELSE IF ~get_ok
    THEN [ret |-> FALSE, replicas |-> actual, direction |-> "none", kind |-> "get_failed"]
    ELSE IF actual = target_replicas
    THEN [ret |-> TRUE, replicas |-> actual, direction |-> "none", kind |-> "same"]
    ELSE IF ~update_ok
    THEN [ret |-> FALSE, replicas |-> actual, direction |-> "none", kind |-> "update_failed"]
    ELSE [ret |-> TRUE, replicas |-> target_replicas,
          direction |-> IF target_replicas > actual THEN "up" ELSE "down",
          kind |-> "updated"]

\* actual: the replica count service.attrs holds when scale_service reads it;
\* get_ok / update_ok: services.get / service.update did not raise.
\* ret is the returned bool, replicas the orchestrator's count afterwards,
\* direction the counter label incremented ("none": no increment).
scale_service(available, actual, target_replicas, get_ok, update_ok) ==
    IF ~available
    THEN [ret |-> FALSE, replicas |-> actual, direction |-> "none", kind |-> "simulated"]
    ELSE IF ~get_ok
    THEN [ret |-> FALSE, replicas |-> actual, direction |-> "none", kind |-> "get_failed"]
    ELSE IF actual = target_replicas
    THEN [ret |-> TRUE, replicas |-> actual, direction |-> "none", kind |-> "same"]
    ELSE IF ~update_ok
    THEN [ret |-> FALSE, replicas |-> actual, direction |-> "none", kind |-> "update_failed"]
    ELSE [ret |-> TRUE, replicas |-> target_replicas,
          direction |-> IF target_replicas > actual THEN "up" ELSE "down",
          kind |-> "updated"]

\* ------------------------------------------------------ metric collection
\* valid = FALSE stands for the None the function returns when the health
\* response is not a 200 (no return statement is reached)
collect_api_metrics(available, outcome, sample) ==
    IF outcome = "raise"
    THEN [valid |-> TRUE, cpu |-> 0, mem |-> 0, rt |-> 0]
    ELSE IF outcome = "non200"
    THEN [valid |-> FALSE, cpu |-> 0, mem |-> 0, rt |-> 0]
    ELSE IF available
    THEN [valid |-> TRUE, cpu |-> sample.cpu, mem |-> sample.mem, rt |-> sample.rt]
    ELSE [valid |-> TRUE, cpu |-> 0, mem |-> 0, rt |-> sample.rt]

\* utilization measured against POSTGRES_SCALE_UP_CONNECTIONS = 500
collect_postgres_metrics_of_500(api_replicas) ==
    [connections |-> api_replicas * 50,
     connection_utilization |-> Min2(api_replicas * 10, 100)]

\* simulated memory usage without its cap of 80
collect_redis_metrics_uncapped(api_replicas) ==
    [memory_usage |-> api_replicas * 10, hit_rate |-> 85]

\* min(api_replicas * 50 / 1000 * 100, 100)
collect_postgres_metrics(api_replicas) ==
    [connections |-> api_replicas * 50,
     connection_utilization |-> Min2(api_replicas * 5, 100)]

collect_redis_metrics(api_replicas) ==
    [memory_usage |-> Min2(api_replicas * 10, 80), hit_rate |-> 85]

\* ------------------------------------------------------------- pipelines
\* The state a pipeline leaves behind: orchestrator counts, cooldown ledger,
\* counters, and what was done (kind).
NoAction(kind) ==
    [replicas |-> replicas, ledger |-> last_scaling_action,
     counters |-> scaling_decisions, last_update |-> last_update, kind |-> kind]

\* if self.scale_service(name, target): self.metrics_collector.record_scaling_action(s)
Actuate(service, target, actual, get_ok, update_ok, t) ==
    LET r == scale_service(docker_available, actual, target, get_ok, update_ok)
    IN  [replicas |-> [replicas EXCEPT ![service] = r.replicas],
         ledger |-> IF r.ret THEN record_scaling_action(last_scaling_action, service, t)
                    ELSE last_scaling_action,
         counters |-> IF r.direction = "none" THEN scaling_decisions
                      ELSE [scaling_decisions EXCEPT ![service][r.direction] = @ + 1],
         last_update |-> IF r.kind = "updated"
                         THEN record_scaling_action(last_update, service, t)
                         ELSE last_update,
         kind |-> r.kind]

\* the application pipeline calling scale_service whatever the decision is
scale_api_instances_always_actuates(outcome, sample, read_ok, actual, get_ok, update_ok, t) ==
    LET metrics == collect_api_metrics(docker_available, outcome, sample)
        current_replicas == get_service_replicas(docker_available, replicas, API, read_ok)
    IN  IF ~metrics.valid
        THEN [history |-> metrics_history, current |-> current_replicas,
              act |-> NoAction("error")]
        ELSE
        LET h1 == add_metric(metrics_history, "api_cpu_usage", metrics.cpu)
            h2 == add_metric(h1, "api_memory_usage", metrics.mem)
            h3 == add_metric(h2, "api_response_time", metrics.rt)
        IN  IF ~can_scale(last_scaling_action, API, t)
            THEN [history |-> h3, current |-> current_replicas,
                  act |-> NoAction("cooldown")]
            ELSE
            LET target_replicas ==
                    make_scaling_decision(algorithm, metrics, current_replicas, h3)
            IN  [history |-> h3, current |-> current_replicas,
                 act |-> Actuate(API, target_replicas, actual, get_ok, update_ok, t)]

\* metrics = None makes the log line of the handler raise TypeError, which
\* the handler's own except clause catches: kind "error"
scale_api_instances(outcome, sample, read_ok, actual, get_ok, update_ok, t) ==
    LET metrics == collect_api_metrics(docker_available, outcome, sample)
        current_replicas == get_service_replicas(docker_available, replicas, API, read_ok)
    IN  IF ~metrics.valid
        THEN [history |-> metrics_history, current |-> current_replicas,
              act |-> NoAction("error")]
        ELSE
        LET h1 == add_metric(metrics_history, "api_cpu_usage", metrics.cpu)
            h2 == add_metric(h1, "api_memory_usage", metrics.mem)
            h3 == add_metric(h2, "api_response_time", metrics.rt)
        IN  IF ~can_scale(last_scaling_action, API, t)
            THEN [history |-> h3, current |-> current_replicas,
                  act |-> NoAction("cooldown")]
            ELSE
            LET target_replicas ==
                    make_scaling_decision(algorithm, metrics, current_replicas, h3)
            IN  [history |-> h3, current |-> current_replicas,
                 act |-> IF target_replicas # current_replicas
                         THEN Actuate(API, target_replicas, actual, get_ok, update_ok, t)
                         ELSE NoAction("noop")]

scale_postgres_instances(api_read_ok, read_ok, actual, get_ok, update_ok, t) ==
    LET metrics == collect_postgres_metrics(
                       get_service_replicas(docker_available, replicas, API, api_read_ok))
        current_replicas ==
            get_service_replicas(docker_available, replicas, POSTGRES, read_ok)
    IN  [history |-> metrics_history, current |-> current_replicas,
         act |-> IF /\ metrics.connection_utilization > POSTGRES_SCALE_UP_UTILIZATION
                    /\ current_replicas < POSTGRES_MAX_REPLICAS
                    /\ can_scale(last_scaling_action, POSTGRES, t)
                 THEN Actuate(POSTGRES, current_replicas + 1, actual, get_ok, update_ok, t)
                 ELSE NoAction("noop")]

scale_redis_instances(api_read_ok, read_ok, actual, get_ok, update_ok, t) ==
    LET metrics == collect_redis_metrics(
                       get_service_replicas(docker_available, replicas, API, api_read_ok))
        current_replicas ==
            get_service_replicas(docker_available, replicas, REDIS, read_ok)
    IN  [history |-> metrics_history, current |-> current_replicas,
         act |-> IF /\ metrics.memory_usage > REDIS_SCALE_UP_MEMORY
                    /\ current_replicas < REDIS_MAX_REPLICAS
                    /\ can_scale(last_scaling_action, REDIS, t)
                 THEN Actuate(REDIS, current_replicas + 1, actual, get_ok, update_ok, t)
                 ELSE NoAction("noop")]

\* ------------------------------------------------------------- the inputs
ZeroSample == [cpu |-> 0, mem |-> 0, rt |-> 0]

\* the health request answers 200 with a sample, answers another status, or raises
ApiCollections ==
    { [outcome |-> "ok", sample |-> x] : x \in ApiSamples }
        \cup { [outcome |-> "non200", sample |-> ZeroSample],
               [outcome |-> "raise", sample |-> ZeroSample] }

\* whether get_service_replicas can read the orchestrator (it is not asked
\* at all in monitoring-only mode)
ReadOutcomes == IF docker_available THEN BOOLEAN ELSE {TRUE}

\* the replica count scale_service may find: the one the orchestrator held
\* at the pipeline's read, or one another party has set since
Actuals(service) ==
    IF docker_available THEN {replicas[service]} \cup OtherPartyReplicas[service]
    ELSE {replicas[service]}

\* services.get and service.update inside scale_service: both succeed, the
\* first raises, the second raises
OrchestratorCalls ==
    IF docker_available
    THEN { [get_ok |-> TRUE, update_ok |-> TRUE], [get_ok |-> FALSE, update_ok |-> TRUE],
           [get_ok |-> TRUE, update_ok |-> FALSE] }
    ELSE { [get_ok |-> TRUE, update_ok |-> TRUE] }

\* ---------------------------------------------------------------- actions
\* service, health, outcome, current, read_failed describe the pipeline that
\* ran last; ran and erred the pipelines of the tick so far
NoObs ==
    [service |-> "none", health |-> "none", outcome |-> "none", current |-> -1,
     read_failed |-> FALSE, ran |-> {}, erred |-> {}]

\* run() is not followed
NoLoop == [phase |-> "none"]

\* no function is being applied on its own
NoCall == [fn |-> "none", done |-> TRUE]

\* a pipeline without its try/except: the error reaches run(), which re-raises
pipeline_exit_propagates(kind, next) ==
    IF kind = "error" THEN [pc |-> "idle", running |-> FALSE]
    ELSE [pc |-> next, running |-> TRUE]

\* How a pipeline hands control back. Each scale_*_instances wraps its body
\* in try/except Exception: an error is logged and the function returns, so
\* run_monitoring_cycle goes on to the next pipeline and the loop keeps running.
pipeline_exit(kind, next) == [pc |-> next, running |-> TRUE]

Finish(service, next, res, read_ok, health) ==
    /\ metrics_history' = res.history
    /\ replicas' = res.act.replicas
    /\ last_scaling_action' = res.act.ledger
    /\ scaling_decisions' = res.act.counters
    /\ last_update' = res.act.last_update
    /\ obs' = [service |-> service, health |-> health, outcome |-> res.act.kind,
               current |-> res.current,
               read_failed |-> docker_available /\ ~read_ok,
               ran |-> obs.ran \cup {service},
               erred |-> IF res.act.kind = "error" THEN obs.erred \cup {service}
                         ELSE obs.erred]
    /\ pc' = pipeline_exit(res.act.kind, next).pc
    /\ running' = pipeline_exit(res.act.kind, next).running
    /\ UNCHANGED << docker_available, algorithm, now, tick, call, loop >>

Init ==
    /\ docker_available \in BOOLEAN
    /\ algorithm \in Algorithms
    /\ running = TRUE
    /\ now = 0
    /\ replicas \in StartReplicas
    /\ metrics_history = [k \in HistoryKeys |-> << >>]
    /\ last_scaling_action = << >>
    /\ scaling_decisions = [s \in Services |-> [d \in {"up", "down"} |-> 0]]
    /\ pc = "idle"
    /\ tick = 0
    /\ last_update = << >>
    /\ obs = NoObs
    /\ call = NoCall
    /\ loop = NoLoop

\* schedule.run_pending() finds the job due and calls run_monitoring_cycle
StartTick ==
    /\ pc = "idle"
    /\ running
    /\ tick < MaxTicks
    /\ \E d \in TickDelays : now' = now + d
    /\ tick' = tick + 1
    /\ pc' = API
    /\ obs' = NoObs
    /\ UNCHANGED << docker_available, algorithm, running, replicas, metrics_history,
                    last_scaling_action, scaling_decisions, last_update, call, loop >>

\* a cycle that starts over after the cache pipeline
next_pipeline_starts_over(service) ==
    IF service = API THEN POSTGRES
    ELSE IF service = POSTGRES THEN REDIS
    ELSE API

\* a cycle that runs the cache pipeline before the database pipeline
next_pipeline_cache_first(service) ==
    IF service = API THEN REDIS
    ELSE IF service = REDIS THEN POSTGRES
    ELSE "idle"

\* run_monitoring_cycle: scale_api_instances, scale_postgres_instances,
\* scale_redis_instances, then back to the scheduler loop
next_pipeline(service) ==
    IF service = API THEN POSTGRES
    ELSE IF service = POSTGRES THEN REDIS
    ELSE "idle"

\* the kinds a call of scale_service ends in
ScaleKinds == {"simulated", "get_failed", "same", "update_failed", "updated"}

\* The inputs of scale_service are drawn only when the pipeline calls it:
\* probe is the pipeline with the orchestrator untouched and answering.
ScaleApi ==
    /\ pc = API
    /\ \E c \in ApiCollections, read_ok \in ReadOutcomes :
          LET probe == scale_api_instances(c.outcome, c.sample, read_ok,
                                           replicas[API], TRUE, TRUE, now)
          IN  IF probe.act.kind \in ScaleKinds
              THEN \E actual \in Actuals(API), o \in OrchestratorCalls :
                      Finish(API, next_pipeline(API),
                             scale_api_instances(c.outcome, c.sample, read_ok, actual,
                                                 o.get_ok, o.update_ok, now),
                             read_ok, c.outcome)
              ELSE Finish(API, next_pipeline(API), probe, read_ok, c.outcome)

ScalePostgres ==
    /\ pc = POSTGRES
    /\ \E api_read_ok \in ReadOutcomes, read_ok \in ReadOutcomes :
          LET probe == scale_postgres_instances(api_read_ok, read_ok,
                                                replicas[POSTGRES], TRUE, TRUE, now)
          IN  IF probe.act.kind \in ScaleKinds
              THEN \E actual \in Actuals(POSTGRES), o \in OrchestratorCalls :
                      Finish(POSTGRES, next_pipeline(POSTGRES),
                             scale_postgres_instances(api_read_ok, read_ok, actual,
                                                      o.get_ok, o.update_ok, now),
                             read_ok, "none")
              ELSE Finish(POSTGRES, next_pipeline(POSTGRES), probe, read_ok, "none")

ScaleRedis ==
    /\ pc = REDIS
    /\ \E api_read_ok \in ReadOutcomes, read_ok \in ReadOutcomes :
          LET probe == scale_redis_instances(api_read_ok, read_ok,
                                             replicas[REDIS], TRUE, TRUE, now)
          IN  IF probe.act.kind \in ScaleKinds
              THEN \E actual \in Actuals(REDIS), o \in OrchestratorCalls :
                      Finish(REDIS, next_pipeline(REDIS),
                             scale_redis_instances(api_read_ok, read_ok, actual,
                                                   o.get_ok, o.update_ok, now),
                             read_ok, "none")
              ELSE Finish(REDIS, next_pipeline(REDIS), probe, read_ok, "none")

Next == StartTick \/ ScaleApi \/ ScalePostgres \/ ScaleRedis

Spec == Init /\ [][Next]_vars

\* ------------------------------------------- the functions on their own
\* Inputs of the decision engine: values on and around every threshold the
\* three algorithms compare against.
LinearMetrics ==
    { [cpu |-> c, mem |-> m, rt |-> r] :
        c \in {10, CPU_SCALE_DOWN_THRESHOLD, CPU_SCALE_UP_THRESHOLD, CPU_SCALE_UP_THRESHOLD + 1},
        m \in {10, MEMORY_SCALE_DOWN_THRESHOLD, MEMORY_SCALE_UP_THRESHOLD,
               MEMORY_SCALE_UP_THRESHOLD + 1},
        r \in {100, RESPONSE_TIME_SCALE_DOWN_THRESHOLD, RESPONSE_TIME_SCALE_UP_THRESHOLD,
               RESPONSE_TIME_SCALE_UP_THRESHOLD + 1} }

ExponentialMetrics ==
    { [cpu |-> c, mem |-> m, rt |-> 100] :
        c \in {10, SCALE_DOWN_THRESHOLD - 1, SCALE_DOWN_THRESHOLD, SCALE_UP_THRESHOLD,
               SCALE_UP_THRESHOLD + 1, CRITICAL_USAGE, CRITICAL_USAGE + 1, 95},
        m \in {0, SCALE_DOWN_THRESHOLD, CRITICAL_USAGE + 1} }

PredictiveMetrics ==
    { [cpu |-> c, mem |-> m, rt |-> 100] : c \in {39, 40, 60, 61}, m \in {39, 40, 60, 61} }

DecideMetrics == LinearMetrics \cup ExponentialMetrics \cup PredictiveMetrics

\* histories of one metric: empty, two samples, flat, rising, falling
TrendShapes ==
    { << >>, <<30, 90>>, <<30, 30, 30>>, <<30, 40, 40>>, <<40, 30, 30>> }

DecideHistories ==
    { [k \in HistoryKeys |->
          IF k = "api_cpu_usage" THEN c ELSE IF k = "api_memory_usage" THEN m ELSE << >>] :
        c \in TrendShapes, m \in TrendShapes }

\* samples of a history handed to get_trend: 27 = 0.9 * 30 and 33 = 1.1 * 30
TrendValues == {27, 30, 33, 40}

RECURSIVE SeqsUpTo(_, _)
SeqsUpTo(S, n) ==
    IF n = 0 THEN { << >> }
    ELSE LET shorter == SeqsUpTo(S, n - 1)
         IN  shorter \cup { Append(q, x) : q \in { t \in shorter : Len(t) = n - 1 }, x \in S }

\* values of SCALING_ALGORITHM that name no algorithm (names are compared
\* case-sensitively)
OtherNames == {"unknown", "Linear", ""}

DecideCalls ==
    { [fn |-> "make_scaling_decision", done |-> FALSE, alg |-> a, metrics |-> m,
       current |-> c, history |-> h, result |-> -1] :
        a \in Algorithms \cup OtherNames, m \in DecideMetrics, c \in 0..MaxCurrent, h \in DecideHistories }

\* values of the environment variable MIN_REPLICAS
MinReplicasValues == {1, MIN_REPLICAS, 3}

ExponentialCalls ==
    { [fn |-> "_exponential_scaling_decision", done |-> FALSE, min_replicas |-> mn,
       metrics |-> m, current |-> c, result |-> -1] :
        mn \in MinReplicasValues, m \in ExponentialMetrics, c \in 0..MaxCurrent }

TrendCalls ==
    { [fn |-> "get_trend", done |-> FALSE, values |-> q, result |-> "none"] :
        q \in SeqsUpTo(TrendValues, MaxTrendLen) }

\* a ring as MetricsCollector.__init__ creates it; appended lists every
\* sample add_metric was given, in order
NewRing == [fn |-> "add_metric", done |-> TRUE, appended |-> << >>, ring |-> << >>]

InitFn ==
    /\ docker_available = TRUE
    /\ algorithm = "linear"
    /\ running = TRUE
    /\ now = 0
    /\ replicas = [s \in Services |-> 1]
    /\ metrics_history = [k \in HistoryKeys |-> << >>]
    /\ last_scaling_action = << >>
    /\ scaling_decisions = [s \in Services |-> [d \in {"up", "down"} |-> 0]]
    /\ pc = "idle"
    /\ tick = 0
    /\ last_update = << >>
    /\ obs = NoObs
    /\ call \in DecideCalls \cup ExponentialCalls \cup TrendCalls \cup {NewRing}
    /\ loop = NoLoop

Controller ==
    << docker_available, algorithm, running, now, replicas, metrics_history,
       last_scaling_action, scaling_decisions, pc, tick, last_update, obs, loop >>

ApplyDecision ==
    /\ call.fn = "make_scaling_decision" /\ ~call.done
    /\ call' = [call EXCEPT !.done = TRUE,
                            !.result = make_scaling_decision(call.alg, call.metrics,
                                                             call.current, call.history)]
    /\ UNCHANGED Controller

ApplyExponential ==
    /\ call.fn = "_exponential_scaling_decision" /\ ~call.done
    /\ call' = [call EXCEPT !.done = TRUE,
                            !.result = exponential_scaling_decision_within(
                                           call.min_replicas, MAX_REPLICAS,
                                           call.metrics, call.current)]
    /\ UNCHANGED Controller

ApplyTrend ==
    /\ call.fn = "get_trend" /\ ~call.done
    /\ call' = [call EXCEPT !.done = TRUE,
                            !.result = get_trend([k \in {"api_cpu_usage"} |-> call.values],
                                                 "api_cpu_usage")]
    /\ UNCHANGED Controller

ApplyAddMetric ==
    /\ call.fn = "add_metric"
    /\ Len(call.appended) < MaxAppends
    /\ \E v \in {0, 1} :
          call' = [call EXCEPT !.appended = Append(@, v),
                              !.ring = add_metric([k \in {"api_cpu_usage"} |-> call.ring],
                                                  "api_cpu_usage", v)["api_cpu_usage"]]
    /\ UNCHANGED Controller

NextFn == ApplyDecision \/ ApplyExponential \/ ApplyTrend \/ ApplyAddMetric

SpecFn == InitFn /\ [][NextFn]_vars

\* ------------------------------------------------------------ run()
\* max_retries and the first retry_delay of both listeners
max_retries == 5
retry_delay == 2
\* time.sleep(2) after the health thread is started
health_start_sleep == 2
\* time.sleep(1) of the scheduler loop
loop_sleep == 1

\* seconds one pipeline may take: a moment, or two check intervals
PipelineDurations == {1, 2 * CHECK_INTERVAL}

\* a back-off adding the first delay instead of doubling
next_retry_delay_adds(d) == d + retry_delay

\* retry_delay *= 2
next_retry_delay(d) == d * 2

\* a scheduler that keeps a fixed rate: the next run is one period after
\* the time the last one was due
schedule_next_run_fixed_rate(due, t) == due + CHECK_INTERVAL

\* schedule: a job is due again one period after it was created or after
\* its last run returned at t
schedule_next_run(due, t) == t + CHECK_INTERVAL

\* schedule.run_pending runs the job when its next_run has come
should_run(next_run, t) == t >= next_run

InitLoop ==
    /\ docker_available = TRUE
    /\ algorithm = "linear"
    /\ running = TRUE
    /\ now = 0
    /\ replicas = [s \in Services |-> 1]
    /\ metrics_history = [k \in HistoryKeys |-> << >>]
    /\ last_scaling_action = << >>
    /\ scaling_decisions = [s \in Services |-> [d \in {"up", "down"} |-> 0]]
    /\ pc = "idle"
    /\ tick = 0
    /\ last_update = << >>
    /\ obs = NoObs
    /\ call = NoCall
    /\ loop = [phase |-> "metrics",
               metrics_attempt |-> 0, metrics_delay |-> retry_delay,
               metrics_started |-> FALSE, metrics_waits |-> << >>,
               health |-> "not_started", health_attempt |-> 0,
               health_delay |-> retry_delay, health_slept |-> 0, health_gaps |-> << >>,
               next_run |-> -1, ready_at |-> -1, started_at |-> -1,
               finished |-> 0, last_duration |-> 0]

\* what the steps of run() leave alone besides now, pc, tick, running, obs, loop
Scaling ==
    << docker_available, algorithm, replicas, metrics_history, last_scaling_action,
       scaling_decisions, last_update, call >>

\* one pass of the metrics server's retry loop: start_http_server binds or raises
MetricsAttempt ==
    /\ loop.phase = "metrics"
    /\ \E bound \in BOOLEAN :
          IF bound
          THEN /\ loop' = [loop EXCEPT !.metrics_attempt = @ + 1,
                                       !.metrics_started = TRUE,
                                       !.phase = "health_start"]
               /\ now' = now
          ELSE IF loop.metrics_attempt < max_retries - 1
          THEN /\ loop' = [loop EXCEPT !.metrics_attempt = @ + 1,
                                       !.metrics_waits = Append(@, loop.metrics_delay),
                                       !.metrics_delay = next_retry_delay(@)]
               /\ now' = now + loop.metrics_delay
          ELSE /\ loop' = [loop EXCEPT !.metrics_attempt = @ + 1,
                                       !.phase = "health_start"]
               /\ now' = now
    /\ UNCHANGED << Scaling, pc, tick, running, obs >>

\* health_thread.start(), time.sleep(2), schedule.every(CHECK_INTERVAL).seconds.do(...)
StartLoop ==
    /\ loop.phase = "health_start"
    /\ now' = now + health_start_sleep
    /\ loop' = [loop EXCEPT !.phase = "loop", !.health = "trying",
                            !.next_run = schedule_next_run(now', now'),
                            !.ready_at = now']
    /\ UNCHANGED << Scaling, pc, tick, running, obs >>

\* the except clause of health_check_handler in pass l.health_attempt
health_failed(l) ==
    IF l.health_attempt < max_retries - 1
    THEN [l EXCEPT !.health = "trying", !.health_attempt = @ + 1,
                   !.health_slept = l.health_delay,
                   !.health_delay = next_retry_delay(@)]
    ELSE [l EXCEPT !.health = "given_up", !.health_attempt = @ + 1]

\* one pass of the health thread's retry loop: the port is in use, the
\* bind raises, or the server binds and serves
HealthAttempt ==
    /\ loop.health = "trying"
    /\ \E outcome \in {"in_use", "raise", "bound"} :
          LET l == [loop EXCEPT !.health_gaps =
                        IF loop.health_attempt > 0 THEN Append(@, loop.health_slept) ELSE @]
          IN  loop' =
                IF outcome = "in_use"
                THEN [l EXCEPT !.health_attempt = @ + 1,
                               !.health_slept = l.health_delay,
                               !.health_delay = next_retry_delay(@),
                               !.health = IF l.health_attempt + 1 < max_retries
                                          THEN "trying" ELSE "given_up"]
                ELSE IF outcome = "raise" THEN health_failed(l)
                ELSE [l EXCEPT !.health = "serving"]
    /\ UNCHANGED << Scaling, pc, tick, running, obs, now >>

\* serve_forever raises after the server had bound
HealthServeFails ==
    /\ loop.health = "serving"
    /\ loop' = health_failed(loop)
    /\ UNCHANGED << Scaling, pc, tick, running, obs, now >>

\* schedule.run_pending() finds the job due and calls run_monitoring_cycle
RunPending ==
    /\ loop.phase = "loop" /\ running /\ pc = "idle"
    /\ should_run(loop.next_run, now)
    /\ tick < MaxLoopTicks
    /\ pc' = API
    /\ tick' = tick + 1
    /\ obs' = NoObs
    /\ loop' = [loop EXCEPT !.started_at = now]
    /\ UNCHANGED << Scaling, running, now >>

\* schedule.run_pending() finds nothing due; time.sleep(1)
Sleep ==
    /\ loop.phase = "loop" /\ running /\ pc = "idle"
    /\ ~should_run(loop.next_run, now)
    /\ now' = now + loop_sleep
    /\ UNCHANGED << Scaling, pc, tick, running, obs, loop >>

\* one scale_*_instances call of the cycle in flight; after the last one
\* the job returns and schedule sets its next run
LoopPipeline ==
    /\ loop.phase = "loop" /\ running /\ pc \in Services
    /\ \E dur \in PipelineDurations : now' = now + dur
    /\ pc' = next_pipeline(pc)
    /\ obs' = [obs EXCEPT !.service = pc, !.ran = @ \cup {pc}]
    /\ loop' = IF next_pipeline(pc) = "idle"
               THEN [loop EXCEPT !.next_run = schedule_next_run(@, now'),
                                 !.ready_at = now',
                                 !.finished = @ + 1,
                                 !.last_duration = now' - loop.started_at]
               ELSE loop
    /\ UNCHANGED << Scaling, tick, running >>

\* KeyboardInterrupt is raised in the main thread, wherever inside the try
\* block of run() it is executing; except KeyboardInterrupt sets running
Interrupt ==
    /\ loop.phase = "loop" /\ running
    /\ running' = FALSE
    /\ loop' = [loop EXCEPT !.phase = "exited"]
    /\ UNCHANGED << Scaling, pc, tick, obs, now >>

MainThread == MetricsAttempt \/ StartLoop \/ RunPending \/ Sleep \/ LoopPipeline

NextLoop == MainThread \/ HealthAttempt \/ HealthServeFails \/ Interrupt

\* the main thread keeps executing: a sleep returns, a call returns
SpecLoop == InitLoop /\ [][NextLoop]_vars /\ WF_vars(MainThread)

\* ------------------------------------------- the loop under steady load
\* The control loop running for ever with the application under load,
\* every orchestrator call succeeding and nobody else touching the
\* services. can_scale sees the time since a stamp only as
\* timedelta.seconds, that is modulo a day: the clock is kept where it is
\* and every stamp is moved back by the time that passes, modulo a day.
HighLoad == [cpu |-> 85, mem |-> 50, rt |-> 1500]

LiveStartReplicas ==
    { [api |-> n, postgres |-> 1, redis |-> 1] : n \in MIN_REPLICAS..MAX_REPLICAS }

Aged(ledger, d) == [s \in DOMAIN ledger |-> (ledger[s] - d) % SecondsPerDay]

InitLive ==
    /\ docker_available = TRUE
    /\ algorithm = "linear"
    /\ running = TRUE
    /\ now = 0
    /\ replicas \in LiveStartReplicas
    /\ metrics_history = [k \in HistoryKeys |-> << >>]
    /\ last_scaling_action = << >>
    /\ scaling_decisions = [s \in Services |-> [d \in {"up", "down"} |-> 0]]
    /\ pc = "idle"
    /\ tick = 0
    /\ last_update = << >>
    /\ obs = NoObs
    /\ call = NoCall
    /\ loop = NoLoop

LiveStartTick ==
    /\ pc = "idle"
    /\ running
    /\ \E d \in TickDelays :
          /\ last_scaling_action' = Aged(last_scaling_action, d)
          /\ last_update' = Aged(last_update, d)
    /\ pc' = API
    /\ obs' = NoObs
    /\ UNCHANGED << docker_available, algorithm, running, now, replicas, metrics_history,
                    scaling_decisions, tick, call, loop >>

LiveScaleApi ==
    /\ pc = API
    /\ Finish(API, next_pipeline(API),
              scale_api_instances("ok", HighLoad, TRUE, replicas[API], TRUE, TRUE, now),
              TRUE, "ok")

LiveScalePostgres ==
    /\ pc = POSTGRES
    /\ Finish(POSTGRES, next_pipeline(POSTGRES),
              scale_postgres_instances(TRUE, TRUE, replicas[POSTGRES], TRUE, TRUE, now),
              TRUE, "none")

LiveScaleRedis ==
    /\ pc = REDIS
    /\ Finish(REDIS, next_pipeline(REDIS),
              scale_redis_instances(TRUE, TRUE, replicas[REDIS], TRUE, TRUE, now),
              TRUE, "none")

NextLive == LiveStartTick \/ LiveScaleApi \/ LiveScalePostgres \/ LiveScaleRedis

\* ticks keep running: the scheduler loop never stops calling the cycle
SpecLive == InitLive /\ [][NextLive]_vars /\ WF_vars(NextLive)

\* ================================================================= claims
\* a call of service.update was issued (it succeeded, or it raised)
IssuedKinds == {"updated", "update_failed"}

InBounds(service, n) ==
    IF service = API THEN MIN_REPLICAS <= n /\ n <= MAX_REPLICAS
    ELSE IF service = POSTGRES THEN n <= POSTGRES_MAX_REPLICAS
    ELSE n <= REDIS_MAX_REPLICAS

\* C1: after any successful actuation of a pipeline, the replica count of
\* that service lies within its configured bounds, whatever count the
\* orchestrator reported at the start of the pipeline.
C1_ActuationWithinBounds ==
    obs.outcome = "updated" => InBounds(obs.service, replicas[obs.service])

\* C2: two consecutive successful actuations on the same service are at
\* least COOLDOWN_PERIOD seconds apart: a pipeline step that updates a
\* service happens no sooner than COOLDOWN_PERIOD after the last update.
C2_CooldownBetweenActuations ==
    [][ \A s \in Services :
          (pc = s /\ obs'.outcome = "updated" /\ s \in DOMAIN last_update)
              => now' - last_update[s] >= COOLDOWN_PERIOD ]_vars

\* a second actuation of the application tier has just succeeded
C2_Witness ==
    /\ obs.service = API /\ obs.outcome = "updated"
    /\ scaling_decisions[API]["up"] + scaling_decisions[API]["down"] = 2

\* C3: the gate is open exactly when the service has no ledger entry or
\* at least COOLDOWN_PERIOD seconds have elapsed since its stamp, for every
\* elapsed time.
C3_GateIffCooldownElapsed ==
    \A s \in Services :
        can_scale(last_scaling_action, s, now)
            <=> (s \notin DOMAIN last_scaling_action
                    \/ now - last_scaling_action[s] >= COOLDOWN_PERIOD)

\* C4: when the health request of a tick raises, no actuation is issued for
\* the application tier in that tick.
C4_NoActuationWhenCollectionFails ==
    (obs.service = API /\ obs.health = "raise") => obs.outcome \notin IssuedKinds

AllCountersZero ==
    \A s \in Services : \A d \in {"up", "down"} : scaling_decisions[s][d] = 0

\* C6: in monitoring-only mode no tick stamps the cooldown ledger,
\* increments a scaling counter or issues an orchestrator update.
C6_MonitoringOnlyNeverActuates ==
    ~docker_available =>
        /\ last_scaling_action = << >>
        /\ AllCountersZero
        /\ last_update = << >>
        /\ obs.outcome \notin IssuedKinds \cup {"same", "get_failed"}

\* a second tick of monitoring-only mode has called scale_service
C6_Witness ==
    ~docker_available /\ tick = 2 /\ obs.outcome = "simulated"

\* C7 as claimed: in monitoring-only mode get_replicas returns 1 for every
\* service and set_replicas returns success for every target, leaving
\* every replica count unchanged.
C7_SimulatedScaleReturnsSuccess ==
    (~docker_available /\ obs.outcome = "simulated") =>
        \A s \in Services :
            /\ get_service_replicas(docker_available, replicas, s, TRUE) = 1
            /\ \A target \in 0..MAX_REPLICAS :
                  LET r == scale_service(docker_available, replicas[s], target, TRUE, TRUE)
                  IN  r.ret = TRUE /\ r.replicas = replicas[s]

\* C7 as amended: in monitoring-only mode get_replicas returns 1 for every
\* service (so every pipeline reads 1) and set_replicas returns failure
\* (False) for every target, leaving every replica count unchanged.
C7_SimulatedScaleReturnsFalse ==
    ~docker_available =>
        /\ obs.current \in {-1, 1}
        /\ \A s \in Services :
              /\ get_service_replicas(docker_available, replicas, s, TRUE) = 1
              /\ \A target \in 0..MAX_REPLICAS :
                    LET r == scale_service(docker_available, replicas[s], target, TRUE, TRUE)
                    IN  r.ret = FALSE /\ r.replicas = replicas[s]

\* the application pipeline read 1 and called scale_service in monitoring-only mode
C7_Witness ==
    /\ ~docker_available /\ tick = 1
    /\ obs.service = API /\ obs.current = 1 /\ obs.outcome = "simulated"

\* C8: every tick runs the three pipelines in turn; an error raised in a
\* pipeline neither skips the pipelines after it nor stops the control loop.
C8_AllPipelinesRun ==
    /\ running
    /\ pc \in {"idle", API, POSTGRES, REDIS}
    /\ pc = API => obs.ran = {}
    /\ pc = POSTGRES => obs.ran = {API}
    /\ pc = REDIS => obs.ran = {API, POSTGRES}
    /\ (pc = "idle" /\ tick > 0) => obs.ran = Services

\* a tick whose application pipeline raised has run all three pipelines
C8_Witness ==
    pc = "idle" /\ API \in obs.erred /\ obs.ran = Services

\* C9: when the orchestrator cannot report the replica count of a service,
\* no actuation is issued for that service in that tick.
C9_NoActuationWhenReadFails ==
    obs.read_failed => obs.outcome \notin IssuedKinds

\* C10: every tick appends one sample to each application history ring,
\* whatever the health request did.
C10_OneSamplePerTick ==
    pc # API =>
        \A k \in HistoryKeys : Len(metrics_history[k]) = Min2(tick, PREDICTION_SAMPLES)

\* C11: whatever the algorithm, the metrics, the history and the current
\* replica count (below MIN_REPLICAS and above MAX_REPLICAS included), the
\* replica count make_scaling_decision returns lies in
\* [MIN_REPLICAS, MAX_REPLICAS].
C11_DecisionWithinBounds ==
    (call.fn = "make_scaling_decision" /\ call.done)
        => (MIN_REPLICAS <= call.result /\ call.result <= MAX_REPLICAS)

\* a finished call of make_scaling_decision under algorithm alg
Decided(alg) == call.fn = "make_scaling_decision" /\ call.done /\ call.alg = alg

\* C12: the linear algorithm returns current + 1 when cpu, memory or
\* response time is strictly above its scale-up threshold and current is
\* below MAX_REPLICAS; otherwise current - 1 when all three are strictly
\* below their scale-down thresholds and current is above MIN_REPLICAS;
\* otherwise current. A metric exactly on its threshold triggers nothing,
\* and a scale-up demand at current = MAX_REPLICAS returns current.
C12_LinearDecision ==
    Decided("linear") =>
        LET m == call.metrics
            c == call.current
            any_above == m.cpu > 70 \/ m.mem > 80 \/ m.rt > 1000
            all_below == m.cpu < 20 /\ m.mem < 40 /\ m.rt < 200
        IN  /\ (any_above /\ c < 10) => call.result = c + 1
            /\ (any_above /\ c >= 10) => call.result = c
            /\ (~any_above /\ all_below /\ c > 2) => call.result = c - 1
            /\ (~any_above /\ all_below /\ c <= 2) => call.result = c
            /\ (~any_above /\ ~all_below) => call.result = c
            /\ (m.cpu = 70 /\ m.mem = 80 /\ m.rt = 1000) => call.result = c

\* cpu one above its threshold, the other metrics on theirs: 9 becomes 10
C12_Witness ==
    /\ Decided("linear")
    /\ call.metrics = [cpu |-> 71, mem |-> 80, rt |-> 1000]
    /\ call.current = 9 /\ call.result = 10

\* floor(c * num / den)
FloorOf(c, num, den) ==
    CHOOSE n \in 0..(c * num) : den * n <= c * num /\ c * num < den * (n + 1)

Clamped(n) == IF n < 2 THEN 2 ELSE IF n > 10 THEN 10 ELSE n

\* C13: with u = max(cpu, memory) the exponential algorithm returns
\* clamp(floor(current * f), MIN_REPLICAS, MAX_REPLICAS) with f = 2 when
\* u > 90, f = 1.5 when 80 < u <= 90 (u = 90 is not critical), f = 0.7 when
\* u < 30, and current unchanged otherwise. floor(current * 1.5) is 4 for
\* current = 3 and 1 for current = 1 (clamped to 2); current = 4 with
\* u = 95 gives 8.
C13_ExponentialDecision ==
    Decided("exponential") =>
        LET m == call.metrics
            c == call.current
            u == IF m.cpu > m.mem THEN m.cpu ELSE m.mem
        IN  /\ u > 90 => call.result = Clamped(2 * c)
            /\ (80 < u /\ u <= 90) => call.result = Clamped(FloorOf(c, 15, 10))
            /\ u < 30 => call.result = Clamped(FloorOf(c, 7, 10))
            /\ (30 <= u /\ u <= 80) => call.result = c
            /\ (u = 90 /\ c = 3) => call.result = 4
            /\ (u = 90 /\ c = 1) => (FloorOf(c, 15, 10) = 1 /\ call.result = 2)
            /\ (u = 95 /\ c = 4) => call.result = 8

\* usage exactly 90 with three replicas: factor 1.5, floor(4.5) = 4
C13_Witness ==
    /\ Decided("exponential")
    /\ call.metrics.cpu = 90 /\ call.metrics.mem = 0
    /\ call.current = 3 /\ call.result = 4

\* The trend of the samples q as the claims state it: recent is the mean of
\* the last three samples, older the mean of the samples of the last five
\* that come before them (the first sample when there are only three);
\* recent > 1.1 * older and recent < 0.9 * older are compared after
\* multiplying both sides by 30 * k, k the number of older samples.
ClaimedTrend(q) ==
    LET n == Len(q)
    IN  IF n < 3 THEN "stable"
        ELSE LET recent3 == q[n] + q[n - 1] + q[n - 2]
                 older_k == IF n >= 5 THEN q[n - 4] + q[n - 3] ELSE q[1]
                 k == IF n >= 5 THEN 2 ELSE 1
             IN  IF 10 * k * recent3 > 33 * older_k THEN "increasing"
                 ELSE IF 10 * k * recent3 < 27 * older_k THEN "decreasing"
                 ELSE "stable"

\* C14: the predictive algorithm returns min(current + 1, MAX_REPLICAS)
\* when the cpu or the memory trend is increasing and cpu > 60 or
\* memory > 60; otherwise max(current - 1, MIN_REPLICAS) when both trends
\* are decreasing and cpu < 40 and memory < 40; otherwise current. With
\* fewer than three samples recorded it returns current for every snapshot.
C14_PredictiveDecision ==
    Decided("predictive") =>
        LET m == call.metrics
            c == call.current
            cpu_q == call.history["api_cpu_usage"]
            mem_q == call.history["api_memory_usage"]
            rising == /\ "increasing" \in {ClaimedTrend(cpu_q), ClaimedTrend(mem_q)}
                      /\ (m.cpu > 60 \/ m.mem > 60)
            falling == /\ {ClaimedTrend(cpu_q), ClaimedTrend(mem_q)} = {"decreasing"}
                       /\ m.cpu < 40 /\ m.mem < 40
        IN  /\ rising => call.result = (IF c + 1 < 10 THEN c + 1 ELSE 10)
            /\ (~rising /\ falling) => call.result = (IF c - 1 > 2 THEN c - 1 ELSE 2)
            /\ (~rising /\ ~falling) => call.result = c
            /\ (Len(cpu_q) < 3 /\ Len(mem_q) < 3) => call.result = c

\* a rising cpu history with cpu at 61: five replicas become six
C14_Witness ==
    /\ Decided("predictive")
    /\ call.history["api_cpu_usage"] = <<30, 40, 40>>
    /\ call.history["api_memory_usage"] = <<30, 30, 30>>
    /\ call.metrics.cpu = 61 /\ call.metrics.mem = 39
    /\ call.current = 5 /\ call.result = 6

\* C15: the trend of a history of n samples depends only on its last
\* min(5, n) samples W: stable when n < 3; otherwise increasing iff
\* recent > 1.1 * older, decreasing iff recent < 0.9 * older and stable
\* otherwise, recent being the mean of the last three samples of W and
\* older the mean of the samples of W before them (W[0] when |W| = 3).
\* Equality at either boundary gives stable.
C15_TrendOfLastFive ==
    (call.fn = "get_trend" /\ call.done) =>
        LET q == call.values
            n == Len(q)
            W == IF n <= 5 THEN q ELSE [i \in 1..5 |-> q[n - 5 + i]]
        IN  /\ call.result = ClaimedTrend(W)
            /\ n < 3 => call.result = "stable"
            /\ W \in { <<30, 33, 33, 33>>, <<30, 30, 33, 33, 33>>,
                        <<30, 27, 27, 27>>, <<30, 30, 27, 27, 27>> }
                  => call.result = "stable"

\* six samples whose first one is outside the window: 30 against 27 rises
C15_Witness ==
    /\ call.fn = "get_trend" /\ call.done
    /\ call.values = <<40, 27, 27, 30, 30, 30>>
    /\ call.result = "increasing"

\* C16: a history ring holds at most PREDICTION_SAMPLES samples, and they
\* are the most recently appended ones in the order they were appended:
\* every append succeeds, and an append to a full ring evicts exactly the
\* oldest sample.
C16_RingKeepsNewest ==
    call.fn = "add_metric" =>
        LET n == Len(call.appended)
            held == Len(call.ring)
        IN  /\ held <= 10
            /\ held = (IF n < 10 THEN n ELSE 10)
            /\ \A i \in 1..held : call.ring[i] = call.appended[n - held + i]

\* twelve appends: the two oldest samples (both 1) are gone, the ring
\* starts at the third (0) and ends with the newest (1)
C16_Witness ==
    /\ call.fn = "add_metric"
    /\ Len(call.appended) = 12
    /\ SubSeq(call.appended, 1, 3) = <<1, 1, 0>> /\ call.appended[12] = 1
    /\ Len(call.ring) = 10 /\ call.ring[1] = 0 /\ call.ring[10] = 1

TierMax(service) ==
    IF service = POSTGRES THEN POSTGRES_MAX_REPLICAS ELSE REDIS_MAX_REPLICAS

\* C17: for the database and the cache tier an actuation is issued only
\* when the replica count read is below the tier's maximum (and the
\* pressure metric is above 80% and the cooldown has elapsed), its target
\* is the count read plus one, and no actuation ever lowers the replica
\* count of either tier.
C17_TierOnlyScalesUp ==
    /\ (obs.service \in {POSTGRES, REDIS} /\ obs.outcome \in IssuedKinds)
          => obs.current < TierMax(obs.service)
    /\ (obs.service \in {POSTGRES, REDIS} /\ obs.outcome = "updated")
          => replicas[obs.service] = obs.current + 1
    /\ \A s \in {POSTGRES, REDIS} : scaling_decisions[s]["down"] = 0

\* C18: for every algorithm name other than linear, exponential and
\* predictive, make_scaling_decision returns what the linear algorithm
\* returns on the same metrics and current replica count.
C18_UnknownAlgorithmIsLinear ==
    (/\ call.fn = "make_scaling_decision" /\ call.done
     /\ call.alg \notin {"linear", "exponential", "predictive"})
        => call.result = linear_scaling_decision(call.metrics, call.current)

\* an unrecognised name with cpu above its threshold: five become six,
\* where the exponential decision would give seven and the predictive five
C18_Witness ==
    /\ Decided("Linear")
    /\ call.metrics = [cpu |-> 81, mem |-> 0, rt |-> 100]
    /\ call.history["api_cpu_usage"] = << >>
    /\ call.current = 5 /\ call.result = 6

UpdatesCounted(counters, s) == counters[s]["up"] + counters[s]["down"]

\* C19: in every tick at most one orchestrator update is issued per
\* service: an update of service s is issued only by the pipeline of s, a
\* pipeline that has not run yet in this tick, and one step of it counts
\* at most one update.
C19_OneUpdatePerServicePerTick ==
    [][ \A s \in Services :
          /\ (obs'.service = s /\ obs'.outcome \in IssuedKinds)
                => (pc = s /\ s \notin obs.ran)
          /\ UpdatesCounted(scaling_decisions', s) - UpdatesCounted(scaling_decisions, s)
                \in (IF pc = s /\ s \notin obs.ran THEN {0, 1} ELSE {0}) ]_vars

\* the second tick is over and the application tier was updated in both
C19_Witness ==
    /\ pc = "idle" /\ tick = 2 /\ obs.ran = Services
    /\ API \in DOMAIN last_update /\ last_update[API] = now
    /\ UpdatesCounted(scaling_decisions, API) = 2

\* C20: a tick processes the application, the database and the cache tier
\* in this order. The application pipeline collects, records the sample,
\* checks the gate, decides, actuates and stamps the ledger in this order:
\* the sample is recorded even when the gate is closed, an acting
\* predictive decision has the sample of its own tick in the history, the
\* stamp follows the update that passed the gate, and the gate check of
\* the next tick sees the stamp.
C20_OrderWithinTick ==
    [][ /\ pc = "idle" => pc' = API
        /\ pc = API => (pc' = POSTGRES /\ obs'.ran = {API})
        /\ pc = POSTGRES => (pc' = REDIS /\ obs'.ran = {API, POSTGRES})
        /\ pc = REDIS => (pc' = "idle" /\ obs'.ran = Services)
        /\ (pc = API /\ obs'.outcome # "error")
              => \A k \in HistoryKeys :
                    Len(metrics_history'[k]) =
                        (IF Len(metrics_history[k]) < 10 THEN Len(metrics_history[k]) + 1
                         ELSE 10)
        /\ (pc = API /\ obs'.health = "raise")
              => metrics_history'["api_cpu_usage"][Len(metrics_history'["api_cpu_usage"])] = 0
        /\ (pc = API /\ algorithm = "predictive" /\ obs'.outcome \in IssuedKinds)
              => Len(metrics_history["api_cpu_usage"]) >= 2
        /\ (pc = API /\ obs'.outcome = "updated")
              => /\ API \in DOMAIN last_scaling_action => last_scaling_action[API] < now
                 /\ last_scaling_action'[API] = now'
        /\ (/\ pc = API /\ API \in DOMAIN last_scaling_action
            /\ now - last_scaling_action[API] < 120)
              => /\ obs'.outcome \in {"error", "cooldown"}
                 /\ last_scaling_action' = last_scaling_action ]_vars

\* the tick after one that stamped the application tier is over: its gate
\* check saw the stamp, 30 seconds old, and the stamp is still the old one
C20_Witness ==
    /\ pc = "idle" /\ tick = 2 /\ obs.ran = Services
    /\ API \in DOMAIN last_scaling_action
    /\ now - last_scaling_action[API] = 30
    /\ Len(metrics_history["api_cpu_usage"]) = 2

\* C21: a successful actuation increments the counter of its service
\* exactly once, labeled up when the target is greater than the replica
\* count the decision was based on and down otherwise; a service that was
\* never updated has both counters at zero.
C21_CounterLabelsDecision ==
    \A s \in Services :
        /\ s \notin DOMAIN last_update => UpdatesCounted(scaling_decisions, s) = 0
        /\ (/\ obs.service = s /\ obs.outcome = "updated"
            /\ UpdatesCounted(scaling_decisions, s) = 1)
              => scaling_decisions[s][IF replicas[s] > obs.current THEN "up" ELSE "down"] = 1

\* the sample the application pipeline recorded last
LastSample ==
    [cpu |-> metrics_history["api_cpu_usage"][Len(metrics_history["api_cpu_usage"])],
     mem |-> metrics_history["api_memory_usage"][Len(metrics_history["api_memory_usage"])],
     rt |-> metrics_history["api_response_time"][Len(metrics_history["api_response_time"])]]

\* C22: in a tick where the decision for the application tier equals the
\* replica count that was read, no orchestrator update is issued and the
\* cooldown ledger is not stamped, in every one of consecutive such ticks.
C22_NoChurnInSteadyState ==
    (/\ obs.service = API /\ obs.outcome # "error"
     /\ make_scaling_decision(algorithm, LastSample, obs.current, metrics_history)
            = obs.current)
        => /\ obs.outcome \in {"noop", "cooldown"}
           /\ API \in DOMAIN last_scaling_action => last_scaling_action[API] # now
           /\ API \in DOMAIN last_update => last_update[API] # now

\* the second of two ticks with the same low sample at MIN_REPLICAS: the
\* gate is open, the decision is the count read, nothing was ever stamped
C22_Witness ==
    /\ docker_available /\ tick = 2
    /\ obs.service = API /\ obs.outcome = "noop" /\ obs.current = 2
    /\ metrics_history["api_cpu_usage"] = <<10, 10>>
    /\ last_scaling_action = << >> /\ AllCountersZero

\* C26: the cache tier is never actuated: its memory metric is
\* min(application replicas * 10, 80) and the test is > 80, so the cache
\* pipeline never calls scale_service, whatever the application replica
\* count is.
C26_CacheNeverActuated ==
    /\ obs.service = REDIS => obs.outcome = "noop"
    /\ REDIS \notin DOMAIN last_scaling_action
    /\ REDIS \notin DOMAIN last_update
    /\ UpdatesCounted(scaling_decisions, REDIS) = 0

\* the cache pipeline ran with 17 application replicas (memory exactly
\* 80), one cache replica of at most two and no stamp: it did nothing
C26_Witness ==
    /\ docker_available /\ obs.service = REDIS /\ ~obs.read_failed
    /\ replicas[API] = 17 /\ obs.current = 1 /\ obs.outcome = "noop"

C29_StampOnlyWithUpdate ==
    \A s \in Services :
        s \in DOMAIN last_scaling_action
            => /\ s \in DOMAIN last_update
               /\ last_update[s] = last_scaling_action[s]
               /\ UpdatesCounted(scaling_decisions, s) >= 1

\* C28: under the exponential algorithm, whenever max(cpu, memory) is
\* above SCALE_UP_THRESHOLD and min <= current < max, the target is
\* strictly greater than current, for every min >= 1.
C28_ExponentialMakesProgress ==
    (call.fn = "_exponential_scaling_decision" /\ call.done)
        => LET m == call.metrics
               u == IF m.cpu > m.mem THEN m.cpu ELSE m.mem
           IN  (/\ u > SCALE_UP_THRESHOLD
                /\ call.min_replicas <= call.current /\ call.current < MAX_REPLICAS)
                   => call.result > call.current

\* C23: the control loop never exits in the middle of a tick: when run()
\* has left its loop on a shutdown signal, no tick is in flight.
C23_ShutdownCompletesTick ==
    loop.phase = "exited" => pc = "idle"

\* C24: ticks never overlap and never pile up: a tick starts only after
\* the previous one has finished, at least CHECK_INTERVAL after the job was
\* scheduled or last finished, however long that tick ran; the runs that
\* fell due meanwhile are dropped.
C24_TicksNeitherOverlapNorPileUp ==
    loop.phase \in {"loop", "exited"} =>
        /\ tick - loop.finished \in {0, 1}
        /\ pc \in Services <=> tick - loop.finished = 1
        /\ pc \in Services => loop.started_at - loop.ready_at >= 30
        /\ pc = "idle" => loop.next_run - loop.ready_at >= 30

\* the second tick starts 30 seconds after a first tick that ran for at
\* least two check intervals
C24_Witness ==
    /\ loop.phase = "loop" /\ tick = 2 /\ pc = API
    /\ loop.last_duration >= 60
    /\ loop.started_at = loop.ready_at + 30

IsPrefix(q, r) == Len(q) <= Len(r) /\ \A i \in 1..Len(q) : q[i] = r[i]

BindAttemptsBackOff ==
    loop.phase # "none" =>
        /\ loop.metrics_attempt <= 5 /\ loop.health_attempt <= 5
        /\ IsPrefix(loop.metrics_waits, <<2, 4, 8, 16>>)
        /\ IsPrefix(loop.health_gaps, <<2, 4, 8, 16>>)

\* C25: each listener makes at most 5 bind attempts with waits of 2, 4, 8
\* and 16 seconds between consecutive attempts, and whether or not either
\* listener ever binds, the control loop is eventually started and, unless
\* it is shut down, runs a tick.
C25_ListenersNeverBlockStartup ==
    /\ []BindAttemptsBackOff
    /\ <>(loop.phase \in {"loop", "exited"})
    /\ <>(tick >= 1 \/ ~running)

\* a tick is running although both listeners failed all five attempts
C25_Witness ==
    /\ tick >= 1 /\ running
    /\ ~loop.metrics_started /\ loop.metrics_attempt = 5
    /\ loop.metrics_waits = <<2, 4, 8, 16>>
    /\ loop.health = "given_up" /\ loop.health_attempt = 5
    /\ loop.health_gaps = <<2, 4, 8, 16>>

\* C30: under the linear algorithm, with some application metric above
\* its scale-up threshold in every tick, every orchestrator call
\* succeeding and ticks running for ever, the application tier's replica
\* count eventually reaches MAX_REPLICAS and stays there.
C30_LinearReachesMax ==
    <>[](replicas[API] = MAX_REPLICAS)

\* |target - current| of a finished decision
Step == IF call.result >= call.current THEN call.result - call.current
        ELSE call.current - call.result

\* C31: under the linear and the predictive algorithm a single decision
\* changes the replica count by at most one: |target - current| <= 1 for
\* every metrics snapshot, history and current replica count.
C31_OneStepPerDecision ==
    (Decided("linear") \/ Decided("predictive")) => Step <= 1

\* C31 as amended: under the linear algorithm |target - current| <= 1 for
\* every input; under the predictive algorithm |target - current| <= 1
\* whenever MIN_REPLICAS - 1 <= current <= MAX_REPLICAS + 1, and for a
\* count further outside the decision is current, one step from it, or the
\* bound it was clamped to (MAX_REPLICAS from above, MIN_REPLICAS from
\* below).
C31_OneStepWithinReach ==
    /\ Decided("linear") => Step <= 1
    /\ Decided("predictive") =>
          LET c == call.current
          IN  /\ (MIN_REPLICAS - 1 <= c /\ c <= MAX_REPLICAS + 1) => Step <= 1
              /\ c > MAX_REPLICAS + 1 => (Step <= 1 \/ call.result = MAX_REPLICAS)
              /\ c < MIN_REPLICAS - 1 => (Step <= 1 \/ call.result = MIN_REPLICAS)

\* a rising history with cpu at 61 and one replica more than MAX_REPLICAS:
\* the clamp brings the count back by a single step
C31_Witness ==
    /\ Decided("predictive")
    /\ call.metrics.cpu > 60
    /\ call.current = MAX_REPLICAS + 1 /\ call.result = MAX_REPLICAS

====
